---------------------------- MODULE Spec2Model ----------------------------
(***************************************************************************)
(* Model of sae_hacking.  The two search routines:                         *)
(*   - find_similar_noncooccurring_pairs (look_for_pairs.py)               *)
(*   - find_pattern (find_4tuples.py)                                      *)
(* and the operations around them, each a machine of its own:              *)
(*   - the tensor archives (safetensor_utils.py)                           *)
(*   - generate_prompts (gemma_cooccurrences.py)                           *)
(*   - compute_ablation_matrix and get_all_descriptions (gemma_ablate.py)  *)
(* A specification runs one machine; the variables of the others are idle. *)
(*                                                                         *)
(* Numbers.  Effects and co-occurrence counts are integers.  A cosine      *)
(* similarity is kept exactly, as the pair [num, densq] standing for the   *)
(* real number num / sqrt(densq) (densq > 0); float32 rounding of the      *)
(* tensor backend is not modelled.  A similarity threshold is the rational *)
(* <<p, q>> = p/q with q > 0.  The thresholds of the input space meet a    *)
(* similarity with equality only at 0, the one value the backend computes  *)
(* without rounding (a zero row).                                          *)
(* Optional arguments (int | None) are <<>> for None and <<v>> for v.      *)
(***************************************************************************)
EXTENDS Integers, Sequences, FiniteSets, TLC

VARIABLES
    \* ---- find_similar_noncooccurring_pairs: arguments
    effects_eE, cooccurrences_ee, cooccurrence_threshold,
    cosine_sim_threshold, max_steps, skip_before, skip_after,
    skip_torch_sign,
    \* ---- find_similar_noncooccurring_pairs: locals
    normalized_effects_eE,   \* computed once, before the loop
    i,               \* loop variable of "for i in range(num_ablators)"
    similar_pairs,   \* the list being built, then the returned list
    pc,              \* "idle" | "loop" | "done"
    \* ---- find_pattern: argument
    tensor_dict,     \* the dict as the list of its items <<node id, vector
                     \* of signed weights>>, in insertion order
    \* ---- find_pattern: locals
    pos_neighbors, neg_neighbors,
    outer,           \* position of the outer loop "for A in tensor_dict"
    results,         \* the list being built, then the returned list
    fpc,             \* "idle" | "precompute" | "search" | "done"
    \* ---- safetensor_utils: one save followed by one load
    save_args,       \* the arguments of the save call
    disk,            \* None, or the file at save_path
    loaded,          \* None, or what the load call returned
    apc,             \* "idle" | "save_v2" | "load_v2" | "save_dict" |
                     \* "load_dict" | "loaded" | "failed"
    \* ---- gemma_cooccurrences.generate_prompts: the dataset being iterated
    prompt_args,     \* dataset texts, n_prompts, max_tokens_in_prompt,
                     \* batch_size
    cursor,          \* number of texts read from the source dataset
    buffer,          \* examples of the mapped batch not yet yielded
    yielded,         \* the elements yielded so far
    ppc,             \* "idle" | "iterate" | "done"
    \* ---- gemma_ablate.compute_ablation_matrix
    abl_args,        \* feature activations of the prompt, abridge_ablations_to
    hooks,           \* forward hooks installed at the ablater hook point
    sae_attached,    \* whether the ablater SAE is spliced into the model
    baseline_acts_E,
    ablater_idx,
    ablation_matrix_eE,
    hpc,             \* "idle" | "baseline" | "add_hook" | "run" | "reset" |
                     \* "done" | "raised"
    \* ---- gemma_ablate.get_all_descriptions
    indices,         \* the argument
    missing,         \* feature indices for which the API has no explanation
    task_state,      \* per task: "pending" | "done" | "raised"
    completed,       \* task positions in order of completion
    gathered,        \* None, or the list returned
    dpc              \* "idle" | "gather" | "returned" | "raised"

vars == <<effects_eE, cooccurrences_ee, cooccurrence_threshold,
          cosine_sim_threshold, max_steps, skip_before, skip_after,
          skip_torch_sign, normalized_effects_eE, i, similar_pairs, pc,
          tensor_dict, pos_neighbors, neg_neighbors, outer, results, fpc,
          save_args, disk, loaded, apc,
          prompt_args, cursor, buffer, yielded, ppc,
          abl_args, hooks, sae_attached, baseline_acts_E, ablater_idx,
          ablation_matrix_eE, hpc,
          indices, missing, task_state, completed, gathered, dpc>>

pairArgs == <<effects_eE, cooccurrences_ee, cooccurrence_threshold,
              cosine_sim_threshold, max_steps, skip_before, skip_after,
              skip_torch_sign>>

pairVars == <<pairArgs, normalized_effects_eE, i, similar_pairs, pc>>

patternVars == <<tensor_dict, pos_neighbors, neg_neighbors, outer, results,
                 fpc>>

archiveVars == <<save_args, disk, loaded, apc>>

promptVars == <<prompt_args, cursor, buffer, yielded, ppc>>

ablateVars == <<abl_args, hooks, sae_attached, baseline_acts_E, ablater_idx,
                ablation_matrix_eE, hpc>>

descVars == <<indices, missing, task_state, completed, gathered, dpc>>

\* the variables of the operations outside the two core searches
auxVars == <<archiveVars, promptVars, ablateVars, descVars>>

-----------------------------------------------------------------------------
(* Bounds of the input space *)

NumAblators == 3      \* e: rows of the effect matrix

Ablators == 0 .. (NumAblators - 1)

\* Effect rows the matrices are built from (E = 2 readers): a zero row and
\* two rows whose cosine similarity is -4/5 on the raw values and -1 on the
\* signs.  A matrix may repeat a row (similarity 1 between distinct indices).
EffectRows == { <<0, 0>>, <<1, 2>>, <<-2, -1>> }

EffectMatrices == [Ablators -> EffectRows]

\* Co-occurrence matrices: all zero, or zero but for a single count of 1
\* (anywhere: diagonal, above or below it; symmetry is not assumed).
HotSets == { {} } \cup { {c} : c \in Ablators \X Ablators }

CoocOf(H) == [a \in Ablators |-> [b \in Ablators |->
                 IF <<a, b>> \in H THEN 1 ELSE 0]]

CoocThresholds == { 0, 1 }

\* -3/2 (below the range of a cosine), 0 (the default, met with equality by
\* a zero row), 99/100
SimThresholds == { <<-3, 2>>, <<0, 1>>, <<99, 100>> }

MaxNumAblators == 4   \* largest e of the runs over an index range

NumNodes == 4         \* nodes of the signed adjacency map

Nodes == 0 .. (NumNodes - 1)

\* cell c of the map, row by row: (c \div NumNodes, c % NumNodes)
CellIds == 0 .. (NumNodes * NumNodes - 1)

\* The worked example: edges 0->1 (+), 0->2 (+), 3->1 (+), 3->2 (-)
ExamplePos == { <<0, 1>>, <<0, 2>>, <<3, 1>> }
ExampleNeg == { <<3, 2>> }

\* The maps with at most as many edges as the worked example, of which at
\* most as many negative, placed anywhere (the diagonal included).
MaxEdges == Cardinality(ExamplePos \cup ExampleNeg)
MaxNeg == Cardinality(ExampleNeg)

\* edge sets as strictly increasing lists of cells, with the list positions
\* of the negative edges
EdgeLists ==
    UNION { { e \in [1 .. k -> CellIds] :
                \A m \in 1 .. (k - 1) : e[m] < e[m + 1] } :
            k \in 0 .. MaxEdges }

NegChoices(e) ==
    { Ng \in SUBSET (1 .. Len(e)) : Cardinality(Ng) <= MaxNeg }

\* The map with weight -1 on the listed cells at the positions Ng, +1 on
\* the other listed cells, 0 elsewhere
WeightsOfList(e, Ng) ==
    [a \in Nodes |-> [b \in Nodes |->
        LET hit == { m \in 1 .. Len(e) : e[m] = a * NumNodes + b }
        IN  IF hit = {} THEN 0
            ELSE IF hit \subseteq Ng THEN -1 ELSE 1]]

\* The map with weight +1 on the cells of P, -1 on the cells of Ng, 0 elsewhere
WeightsOf(P, Ng) ==
    [a \in Nodes |-> [b \in Nodes |->
        IF <<a, b>> \in P THEN 1 ELSE IF <<a, b>> \in Ng THEN -1 ELSE 0]]

\* Maps of any shape: the keys need not be 0..n-1, a row may be shorter or
\* longer than the number of keys, and rows may differ in length.  A row is
\* a weight vector indexed from 0, as enumerate() reads it.
KeySets == { {}, {0, 1}, {0, 3}, {0, 1, 3} }

RowLens == { 0, 1, 2, 3 }

Weights == { -1, 0, 1 }

WeightRows == UNION { [0 .. (n - 1) -> Weights] : n \in RowLens }

None == <<>>
Some(v) == <<v>>

\* (skip_before, skip_after): both absent, or an index range (start, end)
\* over the first three indices (0 is the falsy one)
RangeBounds == { 0, 1, 2 }

IndexRanges ==
    { <<None, None>> } \cup { <<Some(s), Some(e)>> : s, e \in RangeBounds }

\* (max_steps, skip_before, skip_after): every index range without step
\* limit, and the step limit 1 without range and with the range (1, 1)
RunModes ==
    { <<None, r[1], r[2]>> : r \in IndexRanges }
    \cup { <<Some(1), None, None>>, <<Some(1), Some(1), Some(1)>> }

-----------------------------------------------------------------------------
(* Helpers *)

\* Python truthiness of an "int | None" argument: None and 0 are falsy.
Truthy(opt) == opt # None /\ opt[1] # 0

Sign(x) == IF x > 0 THEN 1 ELSE IF x < 0 THEN -1 ELSE 0

\* x * |x| : strictly monotone, so a/sqrt(m) >= b/sqrt(n) iff
\* SignedSq(a) * n >= SignedSq(b) * m  (m, n > 0).
SignedSq(x) == Sign(x) * x * x

RECURSIVE DotFrom(_, _, _)
DotFrom(u, v, k) ==
    IF k > Len(u) THEN 0 ELSE u[k] * v[k] + DotFrom(u, v, k + 1)

Dot(u, v) == DotFrom(u, v, 1)

\* torch.sign applied elementwise unless skip_torch_sign
SignRow(row, skipSign) ==
    IF skipSign THEN row ELSE [k \in 1 .. Len(row) |-> Sign(row[k])]

\* variant: the norm is not clamped from below
Normalize_NoClamp(row) == [vec |-> row, normsq |-> Dot(row, row)]

\* F.normalize(x, dim=1): x / max(||x||_2, eps).  The unit vector is kept as
\* the direction vec together with the squared divisor; for a zero row the
\* divisor is eps (any positive value: the numerators are all zero).
Normalize(row) ==
    [vec |-> row, normsq |-> IF Dot(row, row) = 0 THEN 1 ELSE Dot(row, row)]

\* lines 39-41
NormalizeRows(eff, skipSign) ==
    [a \in DOMAIN eff |-> Normalize(SignRow(eff[a], skipSign))]

\* entry j of torch.matmul(normalized_effects_eE, normalized_effects_eE[i])
CosineSim(norm, j, a) ==
    [num   |-> Dot(norm[j].vec, norm[a].vec),
     densq |-> norm[j].normsq * norm[a].normsq]

\* s >= p/q
SimGeqThreshold(s, thr) ==
    SignedSq(s.num) * thr[2] * thr[2] >= SignedSq(thr[1]) * s.densq

\* s >= t, s > t, s = t as real numbers
SimGeq(s, t) == SignedSq(s.num) * t.densq >= SignedSq(t.num) * s.densq
SimGt(s, t) == SignedSq(s.num) * t.densq > SignedSq(t.num) * s.densq
SimEq(s, t) == SignedSq(s.num) * t.densq = SignedSq(t.num) * s.densq

-----------------------------------------------------------------------------
(* find_similar_noncooccurring_pairs as a function of its arguments.       *)
(* p is the record of the eight arguments.                                 *)

num_ablators(p) == Cardinality(DOMAIN p.effects_eE)

Normalized(p) == NormalizeRows(p.effects_eE, p.skip_torch_sign)

\* variant: comparison the wrong way round
SkipsBefore_Flipped(p, a) == Truthy(p.skip_before) /\ p.skip_before[1] < a

\* "if skip_before and skip_before > i: continue"
SkipsBefore(p, a) == Truthy(p.skip_before) /\ p.skip_before[1] > a

\* variant: comparison the wrong way round
SkipsAfter_Flipped(p, a) == Truthy(p.skip_after) /\ p.skip_after[1] > a

\* "if skip_after and skip_after < i: continue"
SkipsAfter(p, a) == Truthy(p.skip_after) /\ p.skip_after[1] < a

\* "if max_steps is not None and i >= max_steps: break"
ReachedMaxSteps(p, a) == p.max_steps # None /\ a >= p.max_steps[1]

\* variant: stops one anchor early
AtLastAblator_OffByOne(p, a) == a >= num_ablators(p) - 2

\* "if i >= num_ablators - 1: continue"
AtLastAblator(p, a) == a >= num_ablators(p) - 1

\* all_cosine_sims_e for anchor a
all_cosine_sims_e(norm, a) == [j \in DOMAIN norm |-> CosineSim(norm, j, a)]

\* variant: the two masks are or-ed
combined_mask_e_Or(p, sims, a) ==
    [j \in DOMAIN sims |->
        \/ p.cooccurrences_ee[a][j] <= p.cooccurrence_threshold
        \/ SimGeqThreshold(sims[j], p.cosine_sim_threshold)]

\* combined_mask_e for anchor a, given all_cosine_sims_e
combined_mask_e(p, sims, a) ==
    [j \in DOMAIN sims |->
        /\ p.cooccurrences_ee[a][j] <= p.cooccurrence_threshold
        /\ SimGeqThreshold(sims[j], p.cosine_sim_threshold)]

\* The triples appended for anchor a: torch.where yields the indices in
\* ascending order, and the inner loop appends in that order.
RECURSIVE AppendValid(_, _, _, _)
AppendValid(mask, sims, a, j) ==
    IF j \notin DOMAIN mask THEN <<>>
    ELSE (IF mask[j] THEN << <<a, j, sims[j]>> >> ELSE <<>>)
         \o AppendValid(mask, sims, a, j + 1)

AnchorPairs(p, norm, a) ==
    LET sims == all_cosine_sims_e(norm, a)
    IN  AppendValid(combined_mask_e(p, sims, a), sims, a, 0)

\* variant: x goes in front of the entries of equal similarity
RECURSIVE InsertDesc_Unstable(_, _)
InsertDesc_Unstable(sorted, x) ==
    IF sorted = <<>> THEN <<x>>
    ELSE IF SimGt(Head(sorted)[3], x[3])
           THEN <<Head(sorted)>> \o InsertDesc_Unstable(Tail(sorted), x)
           ELSE <<x>> \o sorted

\* list.sort(key=lambda x: x[2], reverse=True): stable, so entries of equal
\* similarity keep their relative order.  Insert x behind every entry whose
\* similarity is >= that of x.
RECURSIVE InsertDesc(_, _)
InsertDesc(sorted, x) ==
    IF sorted = <<>> THEN <<x>>
    ELSE IF SimGeq(Head(sorted)[3], x[3])
           THEN <<Head(sorted)>> \o InsertDesc(Tail(sorted), x)
           ELSE <<x>> \o sorted

RECURSIVE SortDesc(_)
SortDesc(seq) ==
    IF seq = <<>> THEN <<>>
    ELSE InsertDesc(SortDesc(SubSeq(seq, 1, Len(seq) - 1)), seq[Len(seq)])

\* The loop from index a on with the pairs collected so far, then the sort.
RECURSIVE LoopFrom(_, _, _, _)
LoopFrom(p, norm, a, acc) ==
    IF a >= num_ablators(p) THEN SortDesc(acc)
    ELSE IF SkipsBefore(p, a) THEN LoopFrom(p, norm, a + 1, acc)
    ELSE IF SkipsAfter(p, a) THEN LoopFrom(p, norm, a + 1, acc)
    ELSE IF ReachedMaxSteps(p, a) THEN SortDesc(acc)
    ELSE IF AtLastAblator(p, a) THEN LoopFrom(p, norm, a + 1, acc)
    ELSE LoopFrom(p, norm, a + 1, acc \o AnchorPairs(p, norm, a))

find_similar_noncooccurring_pairs(p) == LoopFrom(p, Normalized(p), 0, <<>>)

-----------------------------------------------------------------------------
(* The same function as a state machine, one step per loop iteration.      *)

Args ==
    [effects_eE |-> effects_eE, cooccurrences_ee |-> cooccurrences_ee,
     cooccurrence_threshold |-> cooccurrence_threshold,
     cosine_sim_threshold |-> cosine_sim_threshold,
     max_steps |-> max_steps, skip_before |-> skip_before,
     skip_after |-> skip_after, skip_torch_sign |-> skip_torch_sign]

ArchiveIdle ==
    /\ save_args = <<>>
    /\ disk = <<>>
    /\ loaded = <<>>
    /\ apc = "idle"

PromptIdle ==
    /\ prompt_args = <<>>
    /\ cursor = 0
    /\ buffer = <<>>
    /\ yielded = <<>>
    /\ ppc = "idle"

AblateIdle ==
    /\ abl_args = <<>>
    /\ hooks = <<>>
    /\ sae_attached = FALSE
    /\ baseline_acts_E = <<>>
    /\ ablater_idx = 0
    /\ ablation_matrix_eE = <<>>
    /\ hpc = "idle"

DescIdle ==
    /\ indices = <<>>
    /\ missing = {}
    /\ task_state = <<>>
    /\ completed = <<>>
    /\ gathered = <<>>
    /\ dpc = "idle"

AuxIdle == ArchiveIdle /\ PromptIdle /\ AblateIdle /\ DescIdle

PatternIdle ==
    /\ tensor_dict = <<>>
    /\ pos_neighbors = <<>>
    /\ neg_neighbors = <<>>
    /\ outer = 0
    /\ results = <<>>
    /\ fpc = "idle"

Init ==
    /\ effects_eE \in EffectMatrices
    /\ skip_torch_sign \in BOOLEAN
    /\ normalized_effects_eE = <<>>
    /\ cooccurrences_ee \in { CoocOf(H) : H \in HotSets }
    /\ cooccurrence_threshold \in CoocThresholds
    /\ cosine_sim_threshold \in SimThresholds
    /\ \E m \in RunModes :
          max_steps = m[1] /\ skip_before = m[2] /\ skip_after = m[3]
    /\ i = 0
    /\ similar_pairs = <<>>
    /\ pc = "normalize"
    /\ PatternIdle
    /\ AuxIdle

\* variant: the signs are taken in place (torch.sign_), overwriting the
\* caller's matrix
NormalizeEffects_InPlace ==
    /\ pc = "normalize"
    /\ normalized_effects_eE' = NormalizeRows(effects_eE, skip_torch_sign)
    /\ effects_eE' = [a \in DOMAIN effects_eE |->
                         SignRow(effects_eE[a], skip_torch_sign)]
    /\ pc' = "loop"
    /\ UNCHANGED <<cooccurrences_ee, cooccurrence_threshold,
                   cosine_sim_threshold, max_steps, skip_before, skip_after,
                   skip_torch_sign, i, similar_pairs, patternVars,
                   auxVars>>

\* lines 39-41: torch.sign and F.normalize build new tensors
NormalizeEffects ==
    /\ pc = "normalize"
    /\ normalized_effects_eE' = NormalizeRows(effects_eE, skip_torch_sign)
    /\ pc' = "loop"
    /\ UNCHANGED <<pairArgs, i, similar_pairs, patternVars, auxVars>>

InLoop == pc = "loop" /\ i < num_ablators(Args)

ContinueSkipBefore ==
    /\ InLoop
    /\ SkipsBefore(Args, i)
    /\ i' = i + 1
    /\ UNCHANGED <<pairArgs, normalized_effects_eE, similar_pairs, pc,
                   patternVars, auxVars>>

ContinueSkipAfter ==
    /\ InLoop
    /\ ~SkipsBefore(Args, i)
    /\ SkipsAfter(Args, i)
    /\ i' = i + 1
    /\ UNCHANGED <<pairArgs, normalized_effects_eE, similar_pairs, pc,
                   patternVars, auxVars>>

\* break, then the sort and the return
BreakMaxSteps ==
    /\ InLoop
    /\ ~SkipsBefore(Args, i) /\ ~SkipsAfter(Args, i)
    /\ ReachedMaxSteps(Args, i)
    /\ similar_pairs' = SortDesc(similar_pairs)
    /\ pc' = "done"
    /\ UNCHANGED <<pairArgs, normalized_effects_eE, i, patternVars, auxVars>>

ContinueLastAblator ==
    /\ InLoop
    /\ ~SkipsBefore(Args, i) /\ ~SkipsAfter(Args, i)
    /\ ~ReachedMaxSteps(Args, i)
    /\ AtLastAblator(Args, i)
    /\ i' = i + 1
    /\ UNCHANGED <<pairArgs, normalized_effects_eE, similar_pairs, pc,
                   patternVars, auxVars>>

ProcessAnchor ==
    /\ InLoop
    /\ ~SkipsBefore(Args, i) /\ ~SkipsAfter(Args, i)
    /\ ~ReachedMaxSteps(Args, i)
    /\ ~AtLastAblator(Args, i)
    /\ similar_pairs' = similar_pairs
                          \o AnchorPairs(Args, normalized_effects_eE, i)
    /\ i' = i + 1
    /\ UNCHANGED <<pairArgs, normalized_effects_eE, pc, patternVars, auxVars>>

\* range exhausted: sort and return
SortAndReturn ==
    /\ pc = "loop"
    /\ i >= num_ablators(Args)
    /\ similar_pairs' = SortDesc(similar_pairs)
    /\ pc' = "done"
    /\ UNCHANGED <<pairArgs, normalized_effects_eE, i, patternVars, auxVars>>

Next ==
    \/ NormalizeEffects
    \/ ContinueSkipBefore
    \/ ContinueSkipAfter
    \/ BreakMaxSteps
    \/ ContinueLastAblator
    \/ ProcessAnchor
    \/ SortAndReturn

Spec == Init /\ [][Next]_vars

\* Runs over matrices of every size N up to MaxNumAblators, as a caller that
\* shards the search makes them: the whole run, the run over the index range
\* (0, k) and the run over (k, N) for every split point k in 0..N, and a run
\* cut short by max_steps.  No two features co-occur, so which pairs an
\* anchor yields is decided by the effect rows and the similarity threshold;
\* cooccurrence_threshold and skip_torch_sign are the defaults of make_parser.
InitShards ==
    /\ \E N \in 1 .. MaxNumAblators :
          /\ effects_eE \in [0 .. (N - 1) -> EffectRows]
          /\ cooccurrences_ee =
                [a \in 0 .. (N - 1) |-> [b \in 0 .. (N - 1) |-> 0]]
          /\ \E k \in 0 .. N :
              \E m \in { <<None, None, None>>,
                         <<None, Some(0), Some(k)>>,
                         <<None, Some(k), Some(N)>>,
                         <<Some(1), None, None>> } :
                max_steps = m[1] /\ skip_before = m[2] /\ skip_after = m[3]
    /\ skip_torch_sign = FALSE
    /\ normalized_effects_eE = <<>>
    /\ cooccurrence_threshold = 0
    /\ cosine_sim_threshold \in SimThresholds
    /\ i = 0
    /\ similar_pairs = <<>>
    /\ pc = "normalize"
    /\ PatternIdle
    /\ AuxIdle

SpecShards == InitShards /\ [][Next]_vars

-----------------------------------------------------------------------------
(* find_pattern                                                            *)

\* ascending enumeration of a finite set of integers
RECURSIVE SetToSeq(_)
SetToSeq(S) ==
    IF S = {} THEN <<>>
    ELSE LET m == CHOOSE x \in S : \A y \in S : x <= y
         IN  <<m>> \o SetToSeq(S \ {m})

\* "for ablator_node in tensor_dict": the keys in the order in which they
\* were inserted into the dict
KeysOf(td) == [k \in 1 .. Len(td) |-> td[k][1]]

\* tensor_dict[ablator_node] for every key: the dict as a function
AsMap(td) ==
    [a \in { td[k][1] : k \in 1 .. Len(td) } |->
        td[CHOOSE k \in 1 .. Len(td) : td[k][1] = a][2]]

\* the dict holding the rows of the function m, its keys inserted in the
\* given order
ItemsOf(m, order) == [k \in 1 .. Len(order) |-> <<order[k], m[order[k]]>>]

\* the orders in which the keys K can have been inserted
InsertionOrders(K) ==
    { o \in [1 .. Cardinality(K) -> K] :
        \A k, l \in 1 .. Cardinality(K) : (k # l) => o[k] # o[l] }

\* insertion orders of the node-keyed maps: ascending and descending
NodeOrders ==
    { SetToSeq(Nodes),
      [k \in 1 .. NumNodes |-> SetToSeq(Nodes)[NumNodes + 1 - k]] }

\* variant: a reader position that is not a key of the map is dropped
PosNeighbors_KeysOnly(td) ==
    LET m == AsMap(td)
    IN  [a \in DOMAIN m |->
            { r \in DOMAIN m[a] \cap DOMAIN m : m[a][r] > 0 }]

\* lines 16-24: reader_node is the position in the row, weight its entry
PosNeighbors(td) ==
    LET m == AsMap(td)
    IN  [a \in DOMAIN m |-> { r \in DOMAIN m[a] : m[a][r] > 0 }]

\* variant: "else" in place of "elif weight < 0"
NegNeighbors_ZeroIsNegative(td) ==
    LET m == AsMap(td)
    IN  [a \in DOMAIN m |-> { r \in DOMAIN m[a] : m[a][r] <= 0 }]

NegNeighbors(td) ==
    LET m == AsMap(td)
    IN  [a \in DOMAIN m |-> { r \in DOMAIN m[a] : m[a][r] < 0 }]

\* "for B in common_B: for D in potential_D: if B != D: append((A, B, C, D))"
\* Bs and Ds are the two sets in iteration order, taken to be ascending (the
\* order of a Python set of small non-negative ints).
RECURSIVE CrossBD(_, _, _, _)
CrossBD(A, C, Bs, Ds) ==
    IF Bs = <<>> THEN <<>>
    ELSE SelectSeq([k \in 1 .. Len(Ds) |-> <<A, Head(Bs), C, Ds[k]>>],
                   LAMBDA t : t[2] # t[4])
         \o CrossBD(A, C, Tail(Bs), Ds)

\* variant: D ranges over all positive neighbours of A, and neither A == C
\* nor B == D is tested
PairTuples_NoSignSplit(pos, neg, A, C) ==
    LET Bs == SetToSeq(pos[A] \cap pos[C])
        Ds == SetToSeq(pos[A])
    IN  [k \in 1 .. Len(Bs) * Len(Ds) |->
            <<A, Bs[((k - 1) \div Len(Ds)) + 1], C, Ds[((k - 1) % Len(Ds)) + 1]>>]

\* variant: common_B is gathered as a list, once from the neighbours of A
\* and once from those of C
PairTuples_CommonBTwice(pos, neg, A, C) ==
    IF A = C THEN <<>>
    ELSE LET common_B    == pos[A] \cap pos[C]
             potential_D == pos[A] \cap neg[C]
         IN  CrossBD(A, C, SetToSeq(common_B) \o SetToSeq(common_B),
                     SetToSeq(potential_D))

\* body of the inner loop "for C in tensor_dict" for one C (lines 32-48)
PairTuples(pos, neg, A, C) ==
    IF A = C THEN <<>>
    ELSE LET pos_B_from_A == pos[A]
             pos_B_from_C == pos[C]
             common_B     == pos_B_from_A \cap pos_B_from_C
             potential_D  == pos[A] \cap neg[C]
         IN  CrossBD(A, C, SetToSeq(common_B), SetToSeq(potential_D))

RECURSIVE InnerLoop(_, _, _, _)
InnerLoop(pos, neg, A, Cs) ==
    IF Cs = <<>> THEN <<>>
    ELSE PairTuples(pos, neg, A, Head(Cs)) \o InnerLoop(pos, neg, A, Tail(Cs))

RECURSIVE OuterLoop(_, _, _, _)
OuterLoop(td, pos, neg, As) ==
    IF As = <<>> THEN <<>>
    ELSE InnerLoop(pos, neg, Head(As), KeysOf(td))
         \o OuterLoop(td, pos, neg, Tail(As))

find_pattern(td) ==
    OuterLoop(td, PosNeighbors(td), NegNeighbors(td), KeysOf(td))

PairsIdle ==
    /\ effects_eE = <<>>
    /\ cooccurrences_ee = <<>>
    /\ cooccurrence_threshold = 0
    /\ cosine_sim_threshold = <<0, 1>>
    /\ max_steps = None
    /\ skip_before = None
    /\ skip_after = None
    /\ skip_torch_sign = FALSE
    /\ normalized_effects_eE = <<>>
    /\ i = 0
    /\ similar_pairs = <<>>
    /\ pc = "idle"

InitPattern ==
    /\ \E e \in EdgeLists : \E Ng \in NegChoices(e) :
          \E order \in NodeOrders :
              tensor_dict = ItemsOf(WeightsOfList(e, Ng), order)
    /\ pos_neighbors = <<>>
    /\ neg_neighbors = <<>>
    /\ outer = 1
    /\ results = <<>>
    /\ fpc = "precompute"
    /\ PairsIdle
    /\ AuxIdle

\* lines 16-24
Precompute ==
    /\ fpc = "precompute"
    /\ pos_neighbors' = PosNeighbors(tensor_dict)
    /\ neg_neighbors' = NegNeighbors(tensor_dict)
    /\ fpc' = "search"
    /\ UNCHANGED <<tensor_dict, outer, results, pairVars, auxVars>>

\* one iteration of "for A in tensor_dict" with its whole inner loop
OuterIteration ==
    /\ fpc = "search"
    /\ LET keys == KeysOf(tensor_dict)
       IN  /\ outer <= Len(keys)
           /\ results' = results \o InnerLoop(pos_neighbors, neg_neighbors,
                                              keys[outer], keys)
    /\ outer' = outer + 1
    /\ UNCHANGED <<tensor_dict, pos_neighbors, neg_neighbors, fpc, pairVars,
                   auxVars>>

ReturnResults ==
    /\ fpc = "search"
    /\ outer > Len(KeysOf(tensor_dict))
    /\ fpc' = "done"
    /\ UNCHANGED <<tensor_dict, pos_neighbors, neg_neighbors, outer, results,
                   pairVars, auxVars>>

NextPattern ==
    \/ Precompute
    \/ OuterIteration
    \/ ReturnResults

SpecPattern == InitPattern /\ [][NextPattern]_vars

\* find_pattern called on a map of any shape
InitMaps ==
    /\ \E K \in KeySets : \E m \in [K -> WeightRows] :
          \E order \in InsertionOrders(K) : tensor_dict = ItemsOf(m, order)
    /\ pos_neighbors = <<>>
    /\ neg_neighbors = <<>>
    /\ outer = 1
    /\ results = <<>>
    /\ fpc = "precompute"
    /\ PairsIdle
    /\ AuxIdle

SpecMaps == InitMaps /\ [][NextPattern]_vars

\* either core operation, called once
InitCore == Init \/ InitPattern

NextCore == Next \/ NextPattern

SpecCore == InitCore /\ [][NextCore]_vars

-----------------------------------------------------------------------------
(* safetensor_utils: the archive of named tensors.                         *)
(* A file is the record [zstd, names -> tensors]: safetensors.torch.save   *)
(* keeps every named tensor, the compressor wraps the bytes, and the load  *)
(* side unwraps and parses them; the library round trip is taken to be     *)
(* exact.  A name is a sequence of characters.                             *)

\* tensors stored in an archive
TensorPool == { <<1>>, <<0, 2>> }

OptTensors == { None } \cup { Some(t) : t \in TensorPool }

\* extensions of the paths passed to save and load
PathPool == { ".safetensors.zst", ".safetensors", ".pt" }

DigitChars == <<"0", "1", "2", "3", "4", "5", "6", "7", "8", "9">>

RECURSIVE DigitsOf(_)
DigitsOf(n) ==
    IF n < 10 THEN <<DigitChars[n + 1]>>
    ELSE DigitsOf(n \div 10) \o <<DigitChars[(n % 10) + 1]>>

\* str(key) of an int key
PyStr(k) == IF k < 0 THEN <<"-">> \o DigitsOf(-k) ELSE DigitsOf(k)

IsDigit(c) == \E d \in 1 .. 10 : DigitChars[d] = c

DigitVal(c) == (CHOOSE d \in 1 .. 10 : DigitChars[d] = c) - 1

RECURSIVE DigitsValue(_)
DigitsValue(cs) ==
    IF cs = <<>> THEN 0
    ELSE 10 * DigitsValue(SubSeq(cs, 1, Len(cs) - 1)) + DigitVal(cs[Len(cs)])

\* the six ASCII whitespace characters that int() strips from both ends:
\* space, tab, line feed, vertical tab, form feed, carriage return.  The
\* vertical tab, chr(11), has no escape and is written literally.
WhitespaceChars == { " ", "\t", "\n", "", "\f", "\r" }

RECURSIVE LStrip(_)
LStrip(cs) ==
    IF cs # <<>> /\ Head(cs) \in WhitespaceChars THEN LStrip(Tail(cs))
    ELSE cs

RECURSIVE RStrip(_)
RStrip(cs) ==
    IF cs # <<>> /\ cs[Len(cs)] \in WhitespaceChars
      THEN RStrip(SubSeq(cs, 1, Len(cs) - 1))
      ELSE cs

\* int(name): Some(value), or None where int() raises ValueError.
\* Surrounding whitespace is stripped; what is left is an optional sign
\* followed by decimal digits, single underscores allowed between digits.
\* (Characters are ASCII: the digits of other scripts, which int() also
\* reads, are outside the alphabet of the names modelled.)
PyInt(cs) ==
    LET stripped == RStrip(LStrip(cs))
        signed   == stripped # <<>> /\ stripped[1] \in {"-", "+"}
        body     == IF signed THEN Tail(stripped) ELSE stripped
        wellFormed ==
            /\ body # <<>>
            /\ \A k \in 1 .. Len(body) :
                  \/ IsDigit(body[k])
                  \/ /\ body[k] = "_"
                     /\ 1 < k /\ k < Len(body)
                     /\ IsDigit(body[k - 1]) /\ IsDigit(body[k + 1])
        digits   == SelectSeq(body, IsDigit)
    IN  IF ~wellFormed THEN None
        ELSE Some(IF signed /\ stripped[1] = "-" THEN -DigitsValue(digits)
                  ELSE DigitsValue(digits))

\* the name "cooccurrences"
CoocName == <<"c", "o", "o", "c", "c", "u", "r", "r", "e", "n", "c", "e", "s">>

\* path.endswith(".safetensors.zst")
EndsWithZst(path) == path = ".safetensors.zst"

\* compressor.compress(safetensors.torch.save(tensors))
Compressed(tensors) == [zstd |-> TRUE, tensors |-> tensors]

\* safetensors.torch.load(decompressor.decompress(compressed_data))
Decompressed(file) == file.tensors

\* f with name n bound to value v (tensors[n] = v)
Bind(f, n, v) == [m \in DOMAIN f \cup {n} |-> IF m = n THEN v ELSE f[m]]

Ok(v) == [ok |-> TRUE, value |-> v]
Raised(e) == [ok |-> FALSE, error |-> e]

\* ---- save_v2 / load_v2

V2Keys == { "effects_eE", "cooccurrences_ee", "how_often_activated_e" }

\* lines 83-99: the file written, or the AssertionError
save_v2(a) ==
    IF ~EndsWithZst(a.save_path) THEN Raised("AssertionError")
    ELSE LET t0 == <<>>
             t1 == IF a.cooccurrences_ee # None
                     THEN Bind(t0, "cooccurrences_ee", a.cooccurrences_ee[1])
                     ELSE t0
             t2 == IF a.effects_eE # None
                     THEN Bind(t1, "effects_eE", a.effects_eE[1])
                     ELSE t1
             t3 == IF a.how_often_activated_e # None
                     THEN Bind(t2, "how_often_activated_e",
                               a.how_often_activated_e[1])
                     ELSE t2
         IN  Ok(Compressed(t3))

\* lines 116-150: file is the content of the file at load_path
load_v2(load_path, file) ==
    IF load_path = ".safetensors.zst"
      THEN LET tensor_dict_ == Decompressed(file)
           IN  IF DOMAIN tensor_dict_ \subseteq V2Keys THEN Ok(tensor_dict_)
               ELSE Raised("AssertionError")
    ELSE IF load_path = ".safetensors"
      THEN LET tensor_dict_ == file.tensors
           IN  IF DOMAIN tensor_dict_ \subseteq V2Keys THEN Ok(tensor_dict_)
               ELSE Raised("AssertionError")
    ELSE Raised("ValueError")

CoreIdle == PairsIdle /\ PatternIdle

\* what the archive operations leave alone
archiveFrame == <<pairVars, patternVars, promptVars, ablateVars, descVars>>

ArchiveOthersIdle == CoreIdle /\ PromptIdle /\ AblateIdle /\ DescIdle

InitV2 ==
    /\ save_args \in [effects_eE : OptTensors, save_path : PathPool,
                       cooccurrences_ee : OptTensors,
                       how_often_activated_e : OptTensors]
    /\ disk = None
    /\ loaded = None
    /\ apc = "save_v2"
    /\ ArchiveOthersIdle

SaveV2 ==
    /\ apc = "save_v2"
    /\ save_v2(save_args).ok
    /\ disk' = Some(save_v2(save_args).value)
    /\ apc' = "load_v2"
    /\ UNCHANGED <<save_args, loaded, archiveFrame>>

SaveV2Raises ==
    /\ apc = "save_v2"
    /\ ~save_v2(save_args).ok
    /\ apc' = "failed"
    /\ UNCHANGED <<save_args, disk, loaded, archiveFrame>>

\* load_v2(save_path): the file just written is read back
LoadV2 ==
    /\ apc = "load_v2"
    /\ LET r == load_v2(save_args.save_path, disk[1])
       IN  /\ loaded' = Some(r)
           /\ apc' = IF r.ok THEN "loaded" ELSE "failed"
    /\ UNCHANGED <<save_args, disk, archiveFrame>>

NextV2 ==
    \/ SaveV2
    \/ SaveV2Raises
    \/ LoadV2

SpecV2 == InitV2 /\ [][NextV2]_vars

\* ---- save_dict_with_tensors / load_dict_with_tensors

\* integer keys of the dictionaries saved: negative, zero, one and two digits
KeyPool == { -1, 0, 7, 10 }

TensorDicts == UNION { [K -> TensorPool] : K \in SUBSET KeyPool }

\* lines 23-40: the file written, or the AssertionError
save_dict_with_tensors(a) ==
    IF ~EndsWithZst(a.save_path) THEN Raised("AssertionError")
    ELSE LET d       == a.tensor_dict
             names   == { PyStr(k) : k \in DOMAIN d }
             tensors == [n \in names |->
                            d[CHOOSE k \in DOMAIN d : PyStr(k) = n]]
         IN  Ok(Compressed(
                 IF a.cooccurrences # None
                   THEN Bind(tensors, CoocName, a.cooccurrences[1])
                   ELSE tensors))

\* variant: the "cooccurrences" entry is not skipped in the key loop
load_dict_with_tensors_NoFilter(load_path, file) ==
    IF ~EndsWithZst(load_path) THEN Raised("AssertionError")
    ELSE LET tensor_dict_ == Decompressed(file)
             keys         == DOMAIN tensor_dict_
         IN  IF \E n \in keys : PyInt(n) = None THEN Raised("ValueError")
             ELSE Ok(<<[k \in { PyInt(n)[1] : n \in keys } |->
                          tensor_dict_[CHOOSE n \in keys : PyInt(n)[1] = k]],
                       IF CoocName \in DOMAIN tensor_dict_
                         THEN Some(tensor_dict_[CoocName]) ELSE None>>)

\* lines 55-73: the pair (results, tensor_dict.get("cooccurrences")), the
\* second component None or Some(tensor); ValueError where int(key) raises
load_dict_with_tensors(load_path, file) ==
    IF ~EndsWithZst(load_path) THEN Raised("AssertionError")
    ELSE LET tensor_dict_ == Decompressed(file)
             keys         == DOMAIN tensor_dict_ \ {CoocName}
         IN  IF \E n \in keys : PyInt(n) = None THEN Raised("ValueError")
             ELSE Ok(<<[k \in { PyInt(n)[1] : n \in keys } |->
                          tensor_dict_[CHOOSE n \in keys : PyInt(n)[1] = k]],
                       IF CoocName \in DOMAIN tensor_dict_
                         THEN Some(tensor_dict_[CoocName]) ELSE None>>)

InitDict ==
    /\ save_args \in [tensor_dict : TensorDicts, save_path : PathPool,
                       cooccurrences : OptTensors]
    /\ disk = None
    /\ loaded = None
    /\ apc = "save_dict"
    /\ ArchiveOthersIdle

SaveDict ==
    /\ apc = "save_dict"
    /\ save_dict_with_tensors(save_args).ok
    /\ disk' = Some(save_dict_with_tensors(save_args).value)
    /\ apc' = "load_dict"
    /\ UNCHANGED <<save_args, loaded, archiveFrame>>

SaveDictRaises ==
    /\ apc = "save_dict"
    /\ ~save_dict_with_tensors(save_args).ok
    /\ apc' = "failed"
    /\ UNCHANGED <<save_args, disk, loaded, archiveFrame>>

\* load_dict_with_tensors(save_path): the file just written is read back
LoadDict ==
    /\ apc = "load_dict"
    /\ LET r == load_dict_with_tensors(save_args.save_path, disk[1])
       IN  /\ loaded' = Some(r)
           /\ apc' = IF r.ok THEN "loaded" ELSE "failed"
    /\ UNCHANGED <<save_args, disk, archiveFrame>>

NextDict ==
    \/ SaveDict
    \/ SaveDictRaises
    \/ LoadDict

SpecDict == InitDict /\ [][NextDict]_vars

-----------------------------------------------------------------------------
(* gemma_cooccurrences.generate_prompts: the streaming dataset of texts,   *)
(* mapped in batches through the tokenizer, cut off after n_prompts        *)
(* elements, and iterated by the caller.  A tensor is the record           *)
(* [shape, data].                                                          *)

\* texts as the tokens the tokenizer splits them into: 0, 1 and 3 tokens
TextPool == { <<>>, <<"a">>, <<"a", "b", "c">> }

DatasetLens == { 0, 1, 2, 3 }

Datasets == UNION { [1 .. n -> TextPool] : n \in DatasetLens }

MaxTokensPool == { 2, 3 }

BatchSizes == { 1, 2 }

NPromptsPool == { 0, 1, 2, 4 }

Min(a, b) == IF a < b THEN a ELSE b

\* the tokenizer on one text: <bos> and the tokens, cut to max_length
\* (truncation=True), then padded to max_length (padding="max_length";
\* the Gemma tokenizer pads on the left)
TokenizeOne(text, max_length) ==
    LET toks == <<"<bos>">> \o text
        kept == SubSeq(toks, 1, Min(Len(toks), max_length))
    IN  [k \in 1 .. (max_length - Len(kept)) |-> "<pad>"] \o kept

\* tokenizer(examples["text"], return_tensors="pt", ...)["input_ids"]:
\* one row per text of the batch
tokenized_prompts(texts, max_length) ==
    [shape |-> <<Len(texts), max_length>>,
     data  |-> [k \in 1 .. Len(texts) |-> TokenizeOne(texts[k], max_length)]]

\* lines 31-41, on a batch of texts
preprocess_function(texts, max_length) ==
    [abridged_tensor |-> tokenized_prompts(texts, max_length)]

\* A batched map of a streaming dataset splits the returned batch back into
\* examples: example k holds row k of every column.
BatchToExamples(batch) ==
    [k \in 1 .. batch.abridged_tensor.shape[1] |->
        [abridged_tensor |->
            [shape |-> Tail(batch.abridged_tensor.shape),
             data  |-> batch.abridged_tensor.data[k]]]]

promptFrame == <<pairVars, patternVars, archiveVars, ablateVars, descVars>>

InitPrompts ==
    /\ prompt_args \in [dataset : Datasets, n_prompts : NPromptsPool,
                         max_tokens_in_prompt : MaxTokensPool,
                         batch_size : BatchSizes]
    /\ cursor = 0
    /\ buffer = <<>>
    /\ yielded = <<>>
    /\ ppc = "iterate"
    /\ CoreIdle /\ ArchiveIdle /\ AblateIdle /\ DescIdle

\* .take(n_prompts) has not been used up
TakeOpen == Len(yielded) < prompt_args.n_prompts

\* dataset.map(preprocess_function, batched=True, batch_size=batch_size):
\* the next (up to) batch_size texts are read and mapped
MapBatch ==
    /\ ppc = "iterate"
    /\ TakeOpen
    /\ buffer = <<>>
    /\ cursor < Len(prompt_args.dataset)
    /\ LET n     == Min(prompt_args.batch_size,
                        Len(prompt_args.dataset) - cursor)
           texts == SubSeq(prompt_args.dataset, cursor + 1, cursor + n)
       IN  /\ buffer' = BatchToExamples(
                  preprocess_function(texts,
                                      prompt_args.max_tokens_in_prompt))
           /\ cursor' = cursor + n
    /\ UNCHANGED <<prompt_args, yielded, ppc, promptFrame>>

\* the caller's loop receives the next element
YieldExample ==
    /\ ppc = "iterate"
    /\ TakeOpen
    /\ buffer # <<>>
    /\ yielded' = Append(yielded, Head(buffer))
    /\ buffer' = Tail(buffer)
    /\ UNCHANGED <<prompt_args, cursor, ppc, promptFrame>>

\* n_prompts elements were taken, or the source is exhausted
StopIteration ==
    /\ ppc = "iterate"
    /\ \/ ~TakeOpen
       \/ buffer = <<>> /\ cursor >= Len(prompt_args.dataset)
    /\ ppc' = "done"
    /\ UNCHANGED <<prompt_args, cursor, buffer, yielded, promptFrame>>

NextPrompts ==
    \/ MapBatch
    \/ YieldExample
    \/ StopIteration

SpecPrompts == InitPrompts /\ [][NextPrompts]_vars

-----------------------------------------------------------------------------
(* gemma_ablate.compute_ablation_matrix.  The model runtime is reduced to  *)
(* what the function relies on: a list of forward hooks at the ablater     *)
(* hook point, the flag that the ablater SAE is spliced in, and a forward  *)
(* pass that computes the reader activations at the last position from     *)
(* the ablater feature activations left after the hooks have run.          *)

d_sae == 3            \* ablater_sae.cfg.d_sae: features of the ablater SAE

AblaterFeatures == 0 .. (d_sae - 1)

ReaderFeatures == { 0, 1 }

ActValues == { 0, 1, 2 }

\* abridge_ablations_to: 0 (falsy: all features), fewer than d_sae, more
AbridgePool == { 0, 1, d_sae - 1, d_sae + 1 }

\* hooks the model may carry over from earlier use
StaleHooks == { <<>>, << d_sae - 1 >> }

\* effect of ablater feature k on reader feature j
Weight(k, j) == IF j = 0 THEN k + 1 ELSE -(k + 1) * (k + 1)

\* what the reader sees of the part of the activations the ablater SAE does
\* not reconstruct; present only while the SAE is not spliced in
ErrorTerm(j) == j + 1

\* ablate_feature_hook for every installed hook, in order:
\* acts_BSe[:, :, feature_id] = 0
RECURSIVE ApplyHooks(_, _)
ApplyHooks(acts, hs) ==
    IF hs = <<>> THEN acts
    ELSE ApplyHooks([acts EXCEPT ![Head(hs)] = 0], Tail(hs))

RECURSIVE WeightedSum(_, _, _)
WeightedSum(acts, j, k) ==
    IF k \notin DOMAIN acts THEN 0
    ELSE Weight(k, j) * acts[k] + WeightedSum(acts, j, k + 1)

\* run_with_cache_with_saes(prompt, saes=[reader_sae]), then
\* cache[reader hook][0, -1, :]
ReaderActs(acts, attached, hs) ==
    [j \in ReaderFeatures |->
        IF attached THEN WeightedSum(ApplyHooks(acts, hs), j, 0)
        ELSE WeightedSum(acts, j, 0) + ErrorTerm(j)]

\* line 68
NumAblated(a) ==
    IF a.abridge_ablations_to # 0 THEN a.abridge_ablations_to ELSE d_sae

ablateFrame == <<pairVars, patternVars, archiveVars, promptVars, descVars>>

InitAblate ==
    /\ abl_args \in [acts : [AblaterFeatures -> ActValues],
                      abridge_ablations_to : AbridgePool]
    /\ hooks \in StaleHooks
    /\ sae_attached \in BOOLEAN
    /\ baseline_acts_E = <<>>
    /\ ablater_idx = 0
    /\ ablation_matrix_eE = <<>>
    /\ hpc = "baseline"
    /\ CoreIdle /\ ArchiveIdle /\ PromptIdle /\ DescIdle

\* lines 61-74: reset, baseline run, zero matrix, add_sae
Baseline ==
    /\ hpc = "baseline"
    /\ hooks' = <<>>
    /\ baseline_acts_E' = ReaderActs(abl_args.acts, FALSE, <<>>)
    /\ ablation_matrix_eE' =
          [a \in 0 .. (NumAblated(abl_args) - 1) |->
              [j \in ReaderFeatures |-> 0]]
    /\ sae_attached' = TRUE
    /\ ablater_idx' = 0
    /\ hpc' = "add_hook"
    /\ UNCHANGED <<abl_args, ablateFrame>>

\* lines 77-80
AddHook ==
    /\ hpc = "add_hook"
    /\ ablater_idx < NumAblated(abl_args)
    /\ hooks' = Append(hooks, ablater_idx)
    /\ hpc' = "run"
    /\ UNCHANGED <<abl_args, sae_attached, baseline_acts_E, ablater_idx,
                   ablation_matrix_eE, ablateFrame>>

\* lines 83-90: the forward pass with the installed hooks, and the row
RunAblated ==
    /\ hpc = "run"
    /\ \A k \in 1 .. Len(hooks) : hooks[k] \in AblaterFeatures
    /\ LET ablated_acts_E == ReaderActs(abl_args.acts, sae_attached, hooks)
       IN  ablation_matrix_eE' =
              [ablation_matrix_eE EXCEPT ![ablater_idx] =
                  [j \in ReaderFeatures |->
                      baseline_acts_E[j] - ablated_acts_E[j]]]
    /\ hpc' = "reset"
    /\ UNCHANGED <<abl_args, hooks, sae_attached, baseline_acts_E,
                   ablater_idx, ablateFrame>>

\* a hook indexes past the last feature: the forward pass raises IndexError
RunRaises ==
    /\ hpc = "run"
    /\ \E k \in 1 .. Len(hooks) : hooks[k] \notin AblaterFeatures
    /\ hpc' = "raised"
    /\ UNCHANGED <<abl_args, hooks, sae_attached, baseline_acts_E,
                   ablater_idx, ablation_matrix_eE, ablateFrame>>

\* variant: the hooks are not reset at the end of the iteration
ResetHooks_Missing ==
    /\ hpc = "reset"
    /\ ablater_idx' = ablater_idx + 1
    /\ hpc' = "add_hook"
    /\ UNCHANGED <<abl_args, hooks, sae_attached, baseline_acts_E,
                   ablation_matrix_eE, ablateFrame>>

\* line 93, then the next iteration
ResetHooks ==
    /\ hpc = "reset"
    /\ hooks' = <<>>
    /\ ablater_idx' = ablater_idx + 1
    /\ hpc' = "add_hook"
    /\ UNCHANGED <<abl_args, sae_attached, baseline_acts_E,
                   ablation_matrix_eE, ablateFrame>>

\* line 95
ReturnMatrix ==
    /\ hpc = "add_hook"
    /\ ablater_idx >= NumAblated(abl_args)
    /\ hpc' = "done"
    /\ UNCHANGED <<abl_args, hooks, sae_attached, baseline_acts_E,
                   ablater_idx, ablation_matrix_eE, ablateFrame>>

NextAblate ==
    \/ Baseline
    \/ AddHook
    \/ RunAblated
    \/ RunRaises
    \/ ResetHooks
    \/ ReturnMatrix

SpecAblate == InitAblate /\ [][NextAblate]_vars

-----------------------------------------------------------------------------
(* gemma_ablate.get_all_descriptions: one task per index, all awaited by   *)
(* asyncio.gather.  The event loop completes the pending fetches in any    *)
(* order.                                                                  *)

FeatureIds == { 0, 1, 2 }

IndexListLens == { 0, 1, 2, 3 }

IndexLists == UNION { [1 .. n -> FeatureIds] : n \in IndexListLens }

\* sets of features without an explanation on the server
MissingSets == { {}, {1}, {0, 2} }

\* data["explanations"][0]["description"] of the feature page idx
Description(idx) == <<"description of", idx>>

\* the coroutine objects of the list comprehension, in the order of indices
TasksOf(ixs) ==
    [k \in 1 .. Len(ixs) |-> [idx |-> ixs[k], state |-> "pending",
                              result |-> None]]

descFrame == <<pairVars, patternVars, archiveVars, promptVars, ablateVars>>

\* lines 156-158, up to the await
InitDescriptions ==
    /\ indices \in IndexLists
    /\ missing \in MissingSets
    /\ task_state = TasksOf(indices)
    /\ completed = <<>>
    /\ gathered = None
    /\ dpc = "gather"
    /\ CoreIdle /\ ArchiveIdle /\ PromptIdle /\ AblateIdle

\* get_description_async for task k finishes: the description, or the
\* exception of the lookup re-raised
CompleteFetch ==
    /\ dpc = "gather"
    /\ \E k \in DOMAIN task_state :
          /\ task_state[k].state = "pending"
          /\ task_state' =
                [task_state EXCEPT ![k] =
                    IF task_state[k].idx \in missing
                      THEN [@ EXCEPT !.state = "raised"]
                      ELSE [@ EXCEPT
                              !.state = "done",
                              !.result = Some(Description(task_state[k].idx))]]
          /\ completed' = Append(completed, k)
    /\ UNCHANGED <<indices, missing, gathered, dpc, descFrame>>

\* variant: the results are collected as the tasks complete
GatherReturns_CompletionOrder ==
    /\ dpc = "gather"
    /\ \A k \in DOMAIN task_state : task_state[k].state = "done"
    /\ gathered' = Some([k \in DOMAIN task_state |->
                            task_state[completed[k]].result[1]])
    /\ dpc' = "returned"
    /\ UNCHANGED <<indices, missing, task_state, completed, descFrame>>

\* asyncio.gather(*tasks): once every task is done, the list of their
\* results in the order of the arguments
GatherReturns ==
    /\ dpc = "gather"
    /\ \A k \in DOMAIN task_state : task_state[k].state = "done"
    /\ gathered' = Some([k \in DOMAIN task_state |->
                            task_state[k].result[1]])
    /\ dpc' = "returned"
    /\ UNCHANGED <<indices, missing, task_state, completed, descFrame>>

\* the first exception of a task is propagated to the awaiting caller
GatherRaises ==
    /\ dpc = "gather"
    /\ \E k \in DOMAIN task_state : task_state[k].state = "raised"
    /\ dpc' = "raised"
    /\ UNCHANGED <<indices, missing, task_state, completed, gathered,
                   descFrame>>

NextDescriptions ==
    \/ CompleteFetch
    \/ GatherReturns
    \/ GatherRaises

SpecDescriptions == InitDescriptions /\ [][NextDescriptions]_vars

-----------------------------------------------------------------------------
(* Properties of find_similar_noncooccurring_pairs (specification Spec)    *)

Range(seq) == { seq[k] : k \in 1 .. Len(seq) }

Returned == pc = "done"

Unrestricted == max_steps = None /\ skip_before = None /\ skip_after = None

\* similarity of normalized rows a and b of the current call
Similarity(a, b) == CosineSim(normalized_effects_eE, b, a)

Qualifies(a, b) ==
    /\ cooccurrences_ee[a][b] <= cooccurrence_threshold
    /\ SimGeqThreshold(Similarity(a, b), cosine_sim_threshold)

\* C1: every returned triple (i, j, s) satisfies
\* cooccurrences[i][j] <= cooccurrence_threshold and s >= cosine_sim_threshold,
\* s being the cosine similarity of the normalized rows i and j.
C1_ThresholdCorrectness ==
    Returned =>
        \A k \in 1 .. Len(similar_pairs) :
            LET t == similar_pairs[k]
            IN  /\ cooccurrences_ee[t[1]][t[2]] <= cooccurrence_threshold
                /\ SimGeqThreshold(t[3], cosine_sim_threshold)
                /\ t[3] = Similarity(t[1], t[2])

\* a returned triple that sits on both inclusive boundaries, from an input
\* with a pair that does not qualify
C1_Witness ==
    /\ Returned
    /\ \E t \in Range(similar_pairs) :
          /\ t[1] # t[2]
          /\ cooccurrences_ee[t[1]][t[2]] = cooccurrence_threshold
          /\ cosine_sim_threshold = <<0, 1>>
          /\ t[3].num = 0
    /\ \E a, b \in DOMAIN effects_eE : ~Qualifies(a, b)

\* C2: in an unrestricted run every pair i < j that meets both thresholds is
\* in the returned list as (i, j, similarity), also when j is the last index.
C2_Completeness ==
    (Returned /\ Unrestricted) =>
        \A a, b \in DOMAIN effects_eE :
            (a < b /\ Qualifies(a, b)) =>
                <<a, b, Similarity(a, b)>> \in Range(similar_pairs)

C2_Witness ==
    /\ Returned /\ Unrestricted
    /\ LET last == num_ablators(Args) - 1
       IN  /\ Qualifies(last - 1, last)
           /\ <<last - 1, last, Similarity(last - 1, last)>>
                 \in Range(similar_pairs)
           /\ ~Qualifies(0, last)

\* C3: the returned list holds only upper-triangular pairs: no (i, i, *),
\* never both (i, j, *) and (j, i, *), and no pair twice.
C3_UpperTriangular ==
    Returned =>
        /\ \A t \in Range(similar_pairs) : t[1] # t[2]
        /\ \A t, u \in Range(similar_pairs) : ~(t[1] = u[2] /\ t[2] = u[1])
        /\ \A k, l \in 1 .. Len(similar_pairs) :
              (k # l) => <<similar_pairs[k][1], similar_pairs[k][2]>>
                         # <<similar_pairs[l][1], similar_pairs[l][2]>>

LexLess(t, u) == t[1] < u[1] \/ (t[1] = u[1] /\ t[2] < u[2])

\* C4: the returned list is non-increasing in similarity, and entries of
\* equal similarity are in ascending order of (i, j).
\* (stated on neighbouring entries; both orders are transitive)
C4_SortOrder ==
    Returned =>
        \A k \in 1 .. (Len(similar_pairs) - 1) :
            /\ SimGeq(similar_pairs[k][3], similar_pairs[k + 1][3])
            /\ SimEq(similar_pairs[k][3], similar_pairs[k + 1][3])
                  => LexLess(similar_pairs[k], similar_pairs[k + 1])

\* a returned list with a tie between entries of different anchors and a
\* strict descent
C4_Witness ==
    /\ Returned
    /\ \E k, l \in 1 .. Len(similar_pairs) :
          /\ k < l
          /\ similar_pairs[k][1] < similar_pairs[l][1]
          /\ SimEq(similar_pairs[k][3], similar_pairs[l][3])
    /\ \E k, l \in 1 .. Len(similar_pairs) :
          /\ k < l
          /\ similar_pairs[k][1] > similar_pairs[l][1]
          /\ SimGt(similar_pairs[k][3], similar_pairs[l][3])

\* the call of the current arguments restricted to the index range (s, e)
Shard(s, e) ==
    find_similar_noncooccurring_pairs(
        [Args EXCEPT !.skip_before = Some(s), !.skip_after = Some(e)])

\* the call of the current arguments without index range
Unsharded ==
    find_similar_noncooccurring_pairs(
        [Args EXCEPT !.skip_before = None, !.skip_after = None])

\* the run was made with the index range (s, e) and no step limit
RanShard(s, e) ==
    max_steps = None /\ skip_before = Some(s) /\ skip_after = Some(e)

\* C5: for every N and every split point k in 0..N, the pairs of the run with
\* index range (0, k) united with the pairs of the run with index range (k, N)
\* are the pairs of the run without index range.  Stated of each of the three
\* runs as the program makes it, the other two computed from its arguments.
C5_ShardingEquivalence ==
    Returned =>
        LET N == num_ablators(Args)
        IN  \A k \in 0 .. N :
              /\ Unrestricted =>
                    Range(Shard(0, k)) \cup Range(Shard(k, N))
                        = Range(similar_pairs)
              /\ RanShard(0, k) =>
                    Range(similar_pairs) \cup Range(Shard(k, N))
                        = Range(Unsharded)
              /\ RanShard(k, N) =>
                    Range(Shard(0, k)) \cup Range(similar_pairs)
                        = Range(Unsharded)

\* a run over (0, k) of at least four rows that returns pairs of an anchor
\* below k which the run over (k, N) lacks, and lacks pairs of an anchor
\* above k which the run over (k, N) returns: neither shard is the whole
C5_Witness ==
    /\ Returned
    /\ num_ablators(Args) >= 4
    /\ \E k \in 1 .. (num_ablators(Args) - 2) :
          /\ RanShard(0, k)
          /\ \E t \in Range(similar_pairs) :
                t[1] < k /\ t \notin Range(Shard(k, num_ablators(Args)))
          /\ \E u \in Range(Shard(k, num_ablators(Args))) :
                u[1] > k /\ u \notin Range(similar_pairs)

\* C6: with an index range (start, end), 0 included for either bound, every
\* returned triple has start <= i <= end.
C6_AnchorsInRange ==
    (Returned /\ skip_before # None /\ skip_after # None) =>
        \A t \in Range(similar_pairs) :
            skip_before[1] <= t[1] /\ t[1] <= skip_after[1]

InvertedRange ==
    skip_before # None /\ skip_after # None /\ skip_before[1] > skip_after[1]

\* cosine_sim_threshold outside [-1, 1]
ThresholdOutOfRange ==
    \/ cosine_sim_threshold[1] > cosine_sim_threshold[2]
    \/ cosine_sim_threshold[1] < -cosine_sim_threshold[2]

\* C7 as stated: a call with an inverted index range or a similarity
\* threshold outside [-1, 1] never returns a list.
C7_RejectsInvalidParameters ==
    (InvertedRange \/ ThresholdOutOfRange) => ~Returned

\* C7 amended: such a call is not rejected, it returns a list like any
\* other call: the list is empty when the range is inverted with end >= 1,
\* and with a threshold of -3/2 or less an unrestricted run returns every
\* (i, j), i not the last index, whose co-occurrence is within the threshold.
C7_InvalidParametersReturnList ==
    /\ pc \in {"normalize", "loop", "done"}
    /\ (Returned /\ InvertedRange /\ skip_after[1] >= 1)
          => similar_pairs = <<>>
    /\ (Returned /\ Unrestricted
           /\ 2 * cosine_sim_threshold[1] <= -3 * cosine_sim_threshold[2])
          => \A a, b \in DOMAIN effects_eE :
                (a < num_ablators(Args) - 1
                   /\ cooccurrences_ee[a][b] <= cooccurrence_threshold)
                  => \E t \in Range(similar_pairs) : t[1] = a /\ t[2] = b

\* a returned call with an inverted range whose input has qualifying pairs,
\* and one with an out-of-range threshold that returns pairs
C7_Witness ==
    /\ Returned
    /\ \/ /\ InvertedRange /\ skip_after[1] >= 1
          /\ ~ThresholdOutOfRange
          /\ max_steps = None
          /\ \E a, b \in DOMAIN effects_eE : Qualifies(a, b)
       \/ /\ ThresholdOutOfRange
          /\ similar_pairs # <<>>

IsZeroRow(a) == \A k \in DOMAIN effects_eE[a] : effects_eE[a][k] = 0

\* C8: a zero effect row normalizes to the zero vector, has similarity 0 to
\* every row, and under a strictly positive threshold is in no triple.
C8_ZeroRow ==
    Returned =>
        \A a \in DOMAIN effects_eE :
          IsZeroRow(a) =>
            /\ \A k \in DOMAIN normalized_effects_eE[a].vec :
                  normalized_effects_eE[a].vec[k] = 0
            /\ normalized_effects_eE[a].normsq > 0
            /\ \A b \in DOMAIN effects_eE :
                  /\ Similarity(a, b).num = 0
                  /\ Similarity(b, a).num = 0
                  /\ SimGeqThreshold(Similarity(a, b), <<0, 1>>)
            /\ (cosine_sim_threshold[1] > 0) =>
                  \A k \in 1 .. Len(similar_pairs) :
                      similar_pairs[k][1] # a /\ similar_pairs[k][2] # a

\* a returned non-empty list under a positive threshold, with a zero row at
\* a processed anchor
C8_Witness ==
    /\ Returned /\ Unrestricted
    /\ cosine_sim_threshold[1] > 0
    /\ IsZeroRow(0)
    /\ cooccurrences_ee[0][0] <= cooccurrence_threshold
    /\ similar_pairs # <<>>

-----------------------------------------------------------------------------
(* Properties of find_pattern (specification SpecPattern)                  *)

PatternReturned == fpc = "done"

\* the adjacency map of the call: key -> row
Map == AsMap(tensor_dict)

IsMotif(m, A, B, C, D) ==
    /\ A \in DOMAIN m /\ C \in DOMAIN m
    /\ A # C
    /\ B \in DOMAIN m[A] /\ B \in DOMAIN m[C]
    /\ D \in DOMAIN m[A] /\ D \in DOMAIN m[C]
    /\ m[A][B] > 0
    /\ m[C][B] > 0
    /\ m[A][D] > 0
    /\ m[C][D] < 0
    /\ B # D

ExampleMap == WeightsOf(ExamplePos, ExampleNeg)

\* C9: (A, B, C, D) is returned iff A # C are nodes, A->B, C->B, A->D are
\* strictly positive, C->D is strictly negative and B # D; on the example
\* graph the output contains (0, 1, 3, 2).
C9_MotifCharacterisation ==
    PatternReturned =>
      LET m == Map
      IN  /\ \A t \in Range(results) : IsMotif(m, t[1], t[2], t[3], t[4])
          /\ \A A, B \in Nodes :
                (m[A][B] > 0) =>
                  \A C \in Nodes :
                    (A # C /\ m[C][B] > 0) =>
                      \A D \in Nodes :
                        (m[A][D] > 0 /\ m[C][D] < 0 /\ B # D)
                          => <<A, B, C, D>> \in Range(results)
          /\ m = ExampleMap => <<0, 1, 3, 2>> \in Range(results)

C9_Witness ==
    /\ PatternReturned
    /\ Map = ExampleMap
    /\ results = << <<0, 1, 3, 2>> >>

\* C10 as stated: the four ids of every returned tuple are pairwise distinct.
C10_FourDistinct ==
    PatternReturned =>
        \A t \in Range(results) : Cardinality({t[1], t[2], t[3], t[4]}) = 4

\* C10 amended: every returned tuple has A # C and B # D (A or C may equal
\* B or D).
C10_DistinctWithinRole ==
    \A t \in Range(results) : t[1] # t[3] /\ t[2] # t[4]

\* a returned tuple whose B is A itself (row A has a positive self-weight)
C10_Witness ==
    /\ PatternReturned
    /\ \E t \in Range(results) : t[1] = t[2] /\ Map[t[1]][t[1]] > 0

\* C11: the returned list holds no 4-tuple twice.
C11_NoDuplicateTuples ==
    PatternReturned =>
        \A k, l \in 1 .. Len(results) : (k # l) => results[k] # results[l]

\* a returned list in which the same (B, D) is found from two different A
\* with the same C, and twice from the same (A, C) with different B, from a
\* dict whose keys were not inserted in ascending order
C11_Witness ==
    /\ PatternReturned
    /\ \E k \in 1 .. (Len(tensor_dict) - 1) :
          tensor_dict[k][1] > tensor_dict[k + 1][1]
    /\ \E t, u \in Range(results) :
          t[1] # u[1] /\ t[2] = u[2] /\ t[3] = u[3] /\ t[4] = u[4]
    /\ \E t, u \in Range(results) :
          t[1] = u[1] /\ t[2] # u[2] /\ t[3] = u[3] /\ t[4] = u[4]

\* square and complete: the positions of every row are the keys of the map
WellFormed(td) == \A a \in DOMAIN td : DOMAIN td[a] = DOMAIN td

NoEdges(td) == \A a \in DOMAIN td : \A r \in DOMAIN td[a] : td[a][r] = 0

Positions(td) == UNION { DOMAIN td[a] : a \in DOMAIN td }

\* C12 as stated: a call on a map that is not square/complete never returns
\* and emits no tuple, and a well-formed map without positive or negative
\* edges returns the empty list.
C12_RejectsMalformedMap ==
    /\ (~WellFormed(Map)) => (~PatternReturned /\ results = <<>>)
    /\ (PatternReturned /\ WellFormed(Map) /\ NoEdges(Map))
          => results = <<>>

\* C12 amended: the shape of the map is not checked.  On every map, square
\* or not, the call returns exactly the tuples (A, B, C, D) with A # C keys
\* and B # D positions present in both rows, A->B, C->B, A->D positive and
\* C->D negative, whether or not B and D are keys; a map without positive or
\* negative edges, well-formed or not, returns the empty list.
C12_MalformedMapReturnsMotifs ==
    PatternReturned =>
      LET m == Map
      IN  /\ \A t \in Range(results) : IsMotif(m, t[1], t[2], t[3], t[4])
          /\ \A A, C \in DOMAIN m :
                \A B, D \in Positions(m) :
                    IsMotif(m, A, B, C, D)
                      => <<A, B, C, D>> \in Range(results)
          /\ NoEdges(m) => results = <<>>

\* a returned tuple from a map with rows of different lengths, whose D is
\* not a key of the map
C12_Witness ==
    /\ PatternReturned
    /\ ~WellFormed(Map)
    /\ \E a, c \in DOMAIN Map : DOMAIN Map[a] # DOMAIN Map[c]
    /\ \E t \in Range(results) : t[4] \notin DOMAIN Map

-----------------------------------------------------------------------------
(* Properties of both core operations (specification SpecCore)             *)

\* C13: no step of find_similar_noncooccurring_pairs changes the effects
\* matrix, the co-occurrence matrix or any other argument, and no step of
\* find_pattern changes the adjacency map.
C13_InputsUnchanged ==
    [][pairArgs' = pairArgs /\ tensor_dict' = tensor_dict]_vars

\* a returned pair search whose normalized rows differ from the rows passed
\* in (the signs were taken and the rows scaled)
C13_Witness ==
    /\ Returned
    /\ ~skip_torch_sign
    /\ similar_pairs # <<>>
    /\ \E a \in DOMAIN effects_eE :
          /\ normalized_effects_eE[a].vec # effects_eE[a]
          /\ normalized_effects_eE[a].normsq # 1

-----------------------------------------------------------------------------
(* Properties of the archive (specifications SpecV2, SpecDict)             *)

\* C14: load_v2 of a file written by save_v2, whichever arguments were None,
\* returns a dictionary with exactly the keys effects_eE, cooccurrences_ee
\* and how_often_activated_e, holding the tensors that were saved.
C14_LoadV2HasAllKeys ==
    (apc = "loaded") =>
        /\ DOMAIN loaded[1].value = V2Keys
        /\ \A k \in V2Keys :
              save_args[k] # None => loaded[1].value[k] = save_args[k][1]

\* C15: load_dict_with_tensors of the file written by
\* save_dict_with_tensors(d, path, c) returns the pair (d, c): the same
\* integer keys with the same tensors, and the same cooccurrences or None.
\* Every file that was written loads.
C15_DictRoundTrip ==
    /\ (apc = "loaded") =>
          loaded[1].value = <<save_args.tensor_dict, save_args.cooccurrences>>
    /\ (apc = "failed") => disk = None

\* a loaded dictionary with a negative and a two-digit key, and cooccurrences
C15_Witness ==
    /\ apc = "loaded"
    /\ {-1, 10} \subseteq DOMAIN loaded[1].value[1]
    /\ loaded[1].value[1][-1] # loaded[1].value[1][10]
    /\ loaded[1].value[2] # None

-----------------------------------------------------------------------------
(* Properties of the prompt generator (specification SpecPrompts)          *)

\* C16: every yielded element has an abridged_tensor of shape
\* (batch_size, max_tokens_in_prompt), each of its prompts having exactly
\* max_tokens_in_prompt tokens.
C16_BatchShape ==
    \A k \in 1 .. Len(yielded) :
        LET t == yielded[k].abridged_tensor
        IN  /\ t.shape = <<prompt_args.batch_size,
                            prompt_args.max_tokens_in_prompt>>
            /\ \A r \in 1 .. Len(t.data) :
                  Len(t.data[r]) = prompt_args.max_tokens_in_prompt

-----------------------------------------------------------------------------
(* Properties of compute_ablation_matrix (specification SpecAblate)        *)

\* C17: at every forward pass of the loop the installed hooks are exactly
\* the one hook of the current feature; when the function returns no hook
\* is installed and row i is the baseline reader activations minus the
\* reader activations with only feature i ablated.
C17_OneHookPerPass ==
    /\ (hpc = "run") => hooks = <<ablater_idx>>
    /\ (hpc = "done") =>
          /\ hooks = <<>>
          /\ DOMAIN ablation_matrix_eE = 0 .. (NumAblated(abl_args) - 1)
          /\ \A a \in DOMAIN ablation_matrix_eE :
                \A j \in ReaderFeatures :
                    ablation_matrix_eE[a][j] =
                        baseline_acts_E[j]
                          - ReaderActs(abl_args.acts, TRUE, <<a>>)[j]

\* a returned matrix of several rows in which ablating feature 0 and
\* ablating feature 1 have different, non-zero effects
C17_Witness ==
    /\ hpc = "done"
    /\ {0, 1} \subseteq DOMAIN ablation_matrix_eE
    /\ ablation_matrix_eE[0] # ablation_matrix_eE[1]
    /\ abl_args.acts[0] # 0 /\ abl_args.acts[1] # 0

-----------------------------------------------------------------------------
(* Properties of get_all_descriptions (specification SpecDescriptions)     *)

\* C18: the returned list has the length of indices and entry k is the
\* description of indices[k], in whatever order the fetches completed; a
\* call in which a fetch failed returns no list, partial or whole.
C18_DescriptionsInOrder ==
    /\ (dpc = "returned") =>
          /\ Len(gathered[1]) = Len(indices)
          /\ \A k \in 1 .. Len(indices) :
                gathered[1][k] = Description(indices[k])
    /\ (\E k \in DOMAIN task_state : task_state[k].state = "raised")
          => (dpc # "returned" /\ gathered = None)
    /\ (dpc = "raised") => gathered = None

\* a returned list whose fetches completed in another order than issued,
\* for different features
C18_Witness ==
    /\ dpc = "returned"
    /\ \E m \in 1 .. (Len(completed) - 1) :
          /\ completed[m] > completed[m + 1]
          /\ indices[completed[m]] # indices[completed[m + 1]]

=============================================================================
